---- MODULE Spec2Model ----
(***************************************************************************)
(* A model of the three demonstration notebooks of the repository:         *)
(*   src/dataframe.ipynb, src/dag.ipynb and src/unnamed/part_000.          *)
(*                                                                         *)
(* Three runs are modelled, chosen by `mode`:                              *)
(*   "cells"   - the code cells of one notebook executed once, top to      *)
(*               bottom, at the level of the notebook-level names every    *)
(*               statement reads and binds;                                *)
(*   "measure" - the cells CHUNK_SIZE .. train plot of dataframe.ipynb at  *)
(*               the level of values: the loops of measure_sum_speed and   *)
(*               measure_train_speed, statement by statement;              *)
(*   "groupby" - the cells set_index .. groupby-apply of part_000 on a     *)
(*               small table of rows.                                      *)
(***************************************************************************)
EXTENDS Integers, Sequences, FiniteSets, TLC

VARIABLES
    mode,       \* which run this behaviour is: "cells", "measure", "groupby"
    \* ---- run "cells"
    nb,         \* the notebook being executed
    cell,       \* index of the code cell being executed (Len+1: all done)
    stmt,       \* index of the next statement in that cell
    bound,      \* notebook-level names bound so far
    clientUp,   \* the client-construction statement has run
    nameError,  \* a statement read a name that was not bound
    \* ---- run "measure" (dataframe.ipynb, cells CHUNK_SIZE .. train plot)
    chunkSize,  \* the notebook global CHUNK_SIZE
    days,       \* partitions of ddf: one per day of the generated timeseries
    mpc,        \* the statement about to run
    fn,         \* the measure function running or last run: "sum", "train"
    iter,       \* iterations of the for loop started so far
    count,      \* the loop variable count
    lenLocal,   \* the local len_df
    ddfChunk,   \* the local ddf_chunk: a lazy dask handle
    dfChunk,    \* the local df_chunk: number of leading rows of df it holds
    startTime,  \* the local start_time
    lDask,      \* the local list dask_speed
    lPandas,    \* the local list pandas_speed
    gDask,      \* the notebook global dask_speed: [bound, val]
    gPandas,    \* the notebook global pandas_speed: [bound, val]
    gBefore,    \* history: <<gDask, gPandas>> when the assigning cell started
    measured,   \* history: <<engine, count>> of every append, in order
    now,        \* the clock time.time() reads, in ticks of one row of work
    materialized, \* rows the dask workers have computed so far
    \* ---- run "groupby" (part_000, cells set_index .. groupby-apply)
    gpc,        \* the cell about to run
    rows,       \* the rows of the generated timeseries, in time order
    parts,      \* the partitions of the dask dataframe df
    result      \* what df.groupby('name').apply(train).compute() returned

cellVars == <<nb, cell, stmt, bound, clientUp, nameError>>

measInputs == <<chunkSize, days>>
measLocals == <<iter, count, lenLocal, ddfChunk, dfChunk, startTime, lDask, lPandas>>
measGlobals == <<gDask, gPandas, gBefore>>
measVars == <<measInputs, mpc, fn, measLocals, measGlobals, measured, now, materialized>>

gbVars == <<gpc, rows, parts, result>>

vars == <<mode, cellVars, measVars, gbVars>>

(***************************************************************************)
(* Run "cells": names read and bound by every statement of every code cell *)
(***************************************************************************)

\* Names a fresh Python 3 kernel resolves without any notebook binding.
Builtins == {"len", "range", "print", "object", "FutureWarning", "str", "int", "float"}

\* One statement: the notebook-level names it reads, the ones it binds, and
\* whether it is the client construction ("client"), a dataset / dataframe /
\* task-graph operation ("op") or anything else ("other").
Stmt(r, b, k) == [reads |-> r, binds |-> b, kind |-> k]

\* Globals read while the body of a notebook function runs (read at call
\* time, not at definition time).
BodyTrainDataframe == {"LinearRegression"}
BodyMeasureSum == {"len", "df", "range", "CHUNK_SIZE", "ddf", "time"}
BodyMeasureTrain ==
    {"len", "df", "range", "ddf", "time", "train", "object"} \cup BodyTrainDataframe
BodyTrainPart000 == {"LinearRegression"}

\* One of the two identical plotting cells of dataframe.ipynb.
PlotCell ==
    << Stmt({}, {"plt"}, "other"),
       Stmt({}, {"np"}, "other"),
       Stmt({"range", "CHUNK_SIZE", "len", "df"}, {"x"}, "other"),
       Stmt({"plt"}, {"f", "ax"}, "other"),
       Stmt({"ax", "x", "dask_speed"}, {}, "other"),
       Stmt({"ax", "x", "pandas_speed"}, {}, "other"),
       Stmt({"ax"}, {}, "other"),
       Stmt({"f"}, {}, "other") >>

\* The code cells of dataframe.ipynb.
DataframeCells ==
    << << Stmt({}, {"Client"}, "other"),
          Stmt({"Client"}, {"client"}, "client"),
          Stmt({"client"}, {}, "other") >>,
       << Stmt({}, {"dask"}, "other"),
          Stmt({}, {"dd"}, "other"),
          Stmt({"dask"}, {"ddf"}, "op") >>,
       << Stmt({"ddf"}, {}, "op") >>,
       << Stmt({"ddf"}, {}, "op") >>,
       << Stmt({}, {"human_readable_size"}, "other") >>,
       << Stmt({"human_readable_size", "ddf"}, {}, "op") >>,
       << Stmt({}, {"time"}, "other"),
          Stmt({"time"}, {"start_time"}, "other"),
          Stmt({"ddf"}, {"df"}, "op"),
          Stmt({"print", "time", "start_time"}, {}, "other") >>,
       << Stmt({}, {"sys"}, "other"),
          Stmt({"human_readable_size", "sys", "df"}, {}, "op") >>,
       << Stmt({"len", "df"}, {}, "op") >>,
       << Stmt({}, {"CHUNK_SIZE"}, "other") >>,
       << Stmt({}, {"measure_sum_speed"}, "other") >>,
       << Stmt({"measure_sum_speed"} \cup BodyMeasureSum,
               {"dask_speed", "pandas_speed"}, "op") >>,
       PlotCell,
       << Stmt({}, {"LinearRegression"}, "other"),
          Stmt({}, {"train"}, "other") >>,
       << Stmt({}, {"pd"}, "other"),
          Stmt({}, {"measure_train_speed"}, "other") >>,
       << Stmt({}, {"warnings"}, "other"),
          Stmt({"warnings", "FutureWarning"}, {}, "other"),
          Stmt({"measure_train_speed"} \cup BodyMeasureTrain,
               {"dask_speed", "pandas_speed"}, "op") >>,
       PlotCell >>

\* The code cells of dag.ipynb.
DagCells ==
    << << Stmt({}, {"Client"}, "other"),
          Stmt({"Client"}, {"client"}, "client"),
          Stmt({"client"}, {}, "other") >>,
       << Stmt({}, {"dask"}, "other"),
          Stmt({"dask"}, {"inc"}, "op"),
          Stmt({"dask"}, {"add"}, "op") >>,
       << Stmt({}, {"x"}, "other"),
          Stmt({"inc", "x"}, {"y"}, "op"),
          Stmt({"add", "y"}, {"z"}, "op"),
          Stmt({"z"}, {}, "op") >>,
       << Stmt({"inc"}, {"x"}, "op"),
          Stmt({"inc"}, {"y"}, "op"),
          Stmt({"add", "x", "y"}, {"z"}, "op"),
          Stmt({"z"}, {}, "op") >>,
       << Stmt({}, {"da"}, "other") >>,
       << Stmt({"da"}, {"x"}, "op"),
          Stmt({"x"}, {}, "op") >>,
       << Stmt({"x"}, {}, "op") >>,
       << Stmt({"x"}, {}, "op") >>,
       << Stmt({"x"}, {}, "op") >>,
       << Stmt({"x"}, {}, "op") >> >>

\* The code cells of part_000.
Part000Cells ==
    << << Stmt({}, {"Client", "progress"}, "other"),
          Stmt({"Client"}, {"client"}, "client"),
          Stmt({"client"}, {}, "other") >>,
       << Stmt({}, {"dd"}, "other"),
          Stmt({"dd", "str", "int", "float"}, {"df"}, "op"),
          Stmt({"df"}, {}, "op") >>,
       << Stmt({"df"}, {}, "op") >>,
       << Stmt({"df"}, {}, "op") >>,
       << Stmt({"df"}, {"df2"}, "op"),
          Stmt({"df2"}, {"df3"}, "op"),
          Stmt({"df3"}, {}, "op") >>,
       << Stmt({"df3"}, {}, "op") >>,
       << Stmt({"df"}, {"df"}, "op") >>,
       << Stmt({}, {}, "other") >>,
       << Stmt({"df"}, {}, "op") >>,
       << Stmt({"df"}, {}, "op") >>,
       << Stmt({"df"}, {}, "op") >>,
       << Stmt({"df"}, {}, "op") >>,
       << Stmt({"df"}, {}, "op") >>,
       << Stmt({"df"}, {"df"}, "op"),
          Stmt({"df"}, {}, "op") >>,
       << Stmt({"df"}, {"df"}, "op") >>,
       << Stmt({"df"}, {}, "op") >>,
       << Stmt({}, {"LinearRegression"}, "other"),
          Stmt({}, {"train"}, "other") >>,
       << Stmt({"df", "train"} \cup BodyTrainPart000, {}, "op") >> >>

Notebooks == {"dataframe", "dag", "part_000"}

\* A faulty variant of Cells: in dataframe.ipynb the sum plot cell and the cell
\* before it, which assigns dask_speed and pandas_speed, change places.
CellsPlotFirst(n) ==
    CASE n = "dataframe" ->
             [i \in 1..Len(DataframeCells) |->
                 IF i = 12 THEN DataframeCells[13]
                 ELSE IF i = 13 THEN DataframeCells[12]
                 ELSE DataframeCells[i]]
      [] n = "dag"       -> DagCells
      [] n = "part_000"  -> Part000Cells

\* The code cells of notebook n, top to bottom.
Cells(n) ==
    CASE n = "dataframe" -> DataframeCells
      [] n = "dag"       -> DagCells
      [] n = "part_000"  -> Part000Cells

\* The statement about to run.
NextStmt == Cells(nb)[cell][stmt]

\* One statement of the current cell runs.  A read of an unbound name raises
\* NameError, which aborts the cell and the run.
RunStmt ==
    /\ mode = "cells"
    /\ ~nameError
    /\ cell <= Len(Cells(nb))
    /\ LET s == NextStmt
           last == stmt = Len(Cells(nb)[cell])
       IN  IF s.reads \subseteq (bound \cup Builtins)
           THEN /\ bound' = bound \cup s.binds
                /\ clientUp' = (clientUp \/ s.kind = "client")
                /\ cell' = IF last THEN cell + 1 ELSE cell
                /\ stmt' = IF last THEN 1 ELSE stmt + 1
                /\ UNCHANGED nameError
           ELSE /\ nameError' = TRUE
                /\ UNCHANGED <<bound, clientUp, cell, stmt>>
    /\ UNCHANGED <<mode, nb, measVars, gbVars>>

InitCells ==
    /\ nb \in Notebooks
    /\ cell = 1
    /\ stmt = 1
    /\ bound = {}
    /\ clientUp = FALSE
    /\ nameError = FALSE


\* The values of the "cells" run while another run is modelled.
IdleCells ==
    /\ nb = "dataframe"
    /\ cell = 1
    /\ stmt = 1
    /\ bound = {}
    /\ clientUp = FALSE
    /\ nameError = FALSE

(***************************************************************************)
(* Run "measure": measure_sum_speed, measure_train_speed and their plots   *)
(***************************************************************************)

\* Bounds of the inputs.
MaxChunkUnits == 3
MaxDays == 30

\* dask.datasets.timeseries(): one record per second, one partition per day.
SecondsPerDay == 86400

\* The literal of range(100000, len_df, 100000) in measure_train_speed.
TrainChunkLiteral == 100000

\* The values CHUNK_SIZE is given in its cell; the notebook ships
\* TrainChunkLiteral.
ChunkChoices == {k * 50000 : k \in 1..MaxChunkUnits}

\* len(df), df = ddf.compute(): every row of every partition.
LenDf == days * SecondsPerDay

\* Python's range(start, stop, step) for step > 0: its length and its i-th
\* element (i from 1).
RangeLen(start, stop, step) ==
    IF stop <= start THEN 0 ELSE (stop - start + step - 1) \div step
RangeAt(start, step, i) == start + (i - 1) * step
RangeSeq(start, stop, step) ==
    [i \in 1..RangeLen(start, stop, step) |-> RangeAt(start, step, i)]

\* The start and step the for loop of function f passes to range().
LoopStart(f) == IF f = "sum" THEN chunkSize ELSE TrainChunkLiteral

\* No dask handle.
NoHandle == [n |-> 0, npartitions |-> 0, built |-> FALSE, computed |-> FALSE]

\* A faulty variant of HeadCompute: head called with its default compute=True.
HeadComputeDefault == TRUE

\* The compute argument of ddf.head(count, compute=False).
HeadCompute == FALSE

\* The npartitions argument of ddf.head: not passed, so head's default, 1.
HeadNPartitions == 1

\* groupby('name').apply(train, meta=object) passes meta.
ApplyMetaGiven == TRUE

\* Rows a head handle yields when computed: the first n rows of the first
\* npartitions partitions.
Min(a, b) == IF a <= b THEN a ELSE b
HandleRows(h) == Min(h.n, Min(h.npartitions, days) * SecondsPerDay)

\* Rows the workers compute to evaluate a head handle: the partitions read.
HandleWork(h) == Min(h.npartitions, days) * SecondsPerDay

\* Rows computed while the expression on ddf_chunk is built: x.sum() builds
\* a graph only; groupby.apply without meta runs train on a two-row sample.
BuildWork(f) == IF f = "train" /\ ~ApplyMetaGiven THEN 2 ELSE 0

MeasuringPcs ==
    {"for", "dask_head", "pandas_head", "t0", "dask_build", "dask_compute",
     "dask_append", "t1", "pandas_op", "pandas_append", "return"}

\* The statements that call into dask, pandas or scikit-learn.
LibraryCallPcs ==
    {"dask_head", "pandas_head", "dask_build", "dask_compute", "pandas_op"}

Unbound == [bound |-> FALSE, val |-> <<>>]
BoundTo(v) == [bound |-> TRUE, val |-> v]

\* The cell "dask_speed, pandas_speed = measure_xxx_speed()" starts: the
\* call runs len_df = len(df); dask_speed = []; pandas_speed = [].
EnterFunction ==
    /\ mode = "measure"
    /\ mpc \in {"sum_cell", "train_cell"}
    /\ fn' = IF mpc = "sum_cell" THEN "sum" ELSE "train"
    /\ gBefore' = <<gDask, gPandas>>
    /\ lenLocal' = LenDf
    /\ lDask' = <<>>
    /\ lPandas' = <<>>
    /\ measured' = <<>>
    /\ iter' = 0
    /\ count' = 0
    /\ ddfChunk' = NoHandle
    /\ dfChunk' = 0
    /\ startTime' = 0
    /\ mpc' = "for"
    /\ UNCHANGED <<mode, cellVars, gbVars, measInputs, gDask, gPandas, now, materialized>>

\* for count in range(start, len_df, start): the next count, or the end of
\* the loop.
ForHead ==
    /\ mode = "measure"
    /\ mpc = "for"
    /\ IF iter < RangeLen(LoopStart(fn), lenLocal, LoopStart(fn))
       THEN /\ iter' = iter + 1
            /\ count' = RangeAt(LoopStart(fn), LoopStart(fn), iter + 1)
            /\ mpc' = "dask_head"
       ELSE /\ mpc' = "return"
            /\ UNCHANGED <<iter, count>>
    /\ UNCHANGED <<mode, cellVars, gbVars, measInputs, fn, lenLocal, ddfChunk, dfChunk,
                   startTime, lDask, lPandas, measGlobals, measured, now,
                   materialized>>

\* ddf_chunk = ddf.head(count, compute=False)
DaskHeadStmt ==
    /\ mode = "measure"
    /\ mpc = "dask_head"
    /\ LET h == [n |-> count, npartitions |-> HeadNPartitions,
                 built |-> FALSE, computed |-> HeadCompute]
       IN  /\ ddfChunk' = h
           /\ materialized' = materialized + (IF HeadCompute THEN HandleWork(h) ELSE 0)
           /\ now' = now + (IF HeadCompute THEN HandleWork(h) ELSE 0)
    /\ mpc' = "pandas_head"
    /\ UNCHANGED <<mode, cellVars, gbVars, measInputs, fn, iter, count, lenLocal, dfChunk,
                   startTime, lDask, lPandas, measGlobals, measured>>

\* df_chunk = df.head(count)
PandasHeadStmt ==
    /\ mode = "measure"
    /\ mpc = "pandas_head"
    /\ dfChunk' = Min(count, LenDf)
    /\ mpc' = "t0"
    /\ UNCHANGED <<mode, cellVars, gbVars, measInputs, fn, iter, count, lenLocal, ddfChunk,
                   startTime, lDask, lPandas, measGlobals, measured, now,
                   materialized>>

\* start_time = time.time(), before the dask and before the pandas operation
ReadStartTime ==
    /\ mode = "measure"
    /\ mpc \in {"t0", "t1"}
    /\ startTime' = now
    /\ mpc' = IF mpc = "t0" THEN "dask_build" ELSE "pandas_op"
    /\ UNCHANGED <<mode, cellVars, gbVars, measInputs, fn, iter, count, lenLocal, ddfChunk,
                   dfChunk, lDask, lPandas, measGlobals, measured, now,
                   materialized>>

\* ddf_chunk.x.sum()  /  ddf_chunk.groupby('name').apply(train, meta=object):
\* the expression .compute() is then called on.
DaskBuild ==
    /\ mode = "measure"
    /\ mpc = "dask_build"
    /\ ddfChunk' = [ddfChunk EXCEPT !.built = TRUE]
    /\ materialized' = materialized + BuildWork(fn)
    /\ now' = now + BuildWork(fn)
    /\ mpc' = "dask_compute"
    /\ UNCHANGED <<mode, cellVars, gbVars, measInputs, fn, iter, count, lenLocal, dfChunk,
                   startTime, lDask, lPandas, measGlobals, measured>>

\* .compute(): the workers evaluate whatever of the graph is still deferred.
DaskCompute ==
    /\ mode = "measure"
    /\ mpc = "dask_compute"
    /\ LET work == IF ddfChunk.computed THEN 0 ELSE HandleWork(ddfChunk)
       IN  /\ materialized' = materialized + work
           /\ now' = now + work
    /\ ddfChunk' = [ddfChunk EXCEPT !.computed = TRUE]
    /\ mpc' = "dask_append"
    /\ UNCHANGED <<mode, cellVars, gbVars, measInputs, fn, iter, count, lenLocal, dfChunk,
                   startTime, lDask, lPandas, measGlobals, measured>>

\* dask_speed.append((time.time() - start_time))
DaskAppend ==
    /\ mode = "measure"
    /\ mpc = "dask_append"
    /\ lDask' = Append(lDask, now - startTime)
    /\ measured' = Append(measured, <<"dask", count>>)
    /\ mpc' = "t1"
    /\ UNCHANGED <<mode, cellVars, gbVars, measInputs, fn, iter, count, lenLocal, ddfChunk,
                   dfChunk, startTime, lPandas, measGlobals, now, materialized>>

\* df_chunk.x.sum()  /  df_chunk.groupby('name').apply(train): pandas is
\* eager, the rows of df_chunk are processed here.
PandasOp ==
    /\ mode = "measure"
    /\ mpc = "pandas_op"
    /\ now' = now + dfChunk
    /\ mpc' = "pandas_append"
    /\ UNCHANGED <<mode, cellVars, gbVars, measInputs, fn, iter, count, lenLocal, ddfChunk,
                   dfChunk, startTime, lDask, lPandas, measGlobals, measured,
                   materialized>>

\* pandas_speed.append((time.time() - start_time))
PandasAppend ==
    /\ mode = "measure"
    /\ mpc = "pandas_append"
    /\ lPandas' = Append(lPandas, now - startTime)
    /\ measured' = Append(measured, <<"pandas", count>>)
    /\ mpc' = "for"
    /\ UNCHANGED <<mode, cellVars, gbVars, measInputs, fn, iter, count, lenLocal, ddfChunk,
                   dfChunk, startTime, lDask, measGlobals, now, materialized>>

\* A faulty variant of Raise: the function catches the exception and returns the
\* lists filled so far, which the cell assigns.
RaiseReturnsPartial ==
    /\ mode = "measure"
    /\ mpc \in LibraryCallPcs
    /\ gDask' = BoundTo(lDask)
    /\ gPandas' = BoundTo(lPandas)
    /\ mpc' = "raised"
    /\ UNCHANGED <<mode, cellVars, gbVars, measInputs, fn, measLocals, gBefore, measured,
                   now, materialized>>

\* A library call raises.  Neither function has a try statement: the
\* exception leaves the function and the cell, the tuple assignment of the
\* cell never happens, and the run of the notebook stops.
Raise ==
    /\ mode = "measure"
    /\ mpc \in LibraryCallPcs
    /\ mpc' = "raised"
    /\ UNCHANGED <<mode, cellVars, gbVars, measInputs, fn, measLocals, measGlobals, measured,
                   now, materialized>>

\* return dask_speed, pandas_speed; the cell binds the two globals.
ReturnAssign ==
    /\ mode = "measure"
    /\ mpc = "return"
    /\ gDask' = BoundTo(lDask)
    /\ gPandas' = BoundTo(lPandas)
    /\ mpc' = IF fn = "sum" THEN "sum_plot" ELSE "train_plot"
    /\ UNCHANGED <<mode, cellVars, gbVars, measInputs, fn, measLocals, gBefore, measured,
                   now, materialized>>

\* x = range(CHUNK_SIZE, len(df), CHUNK_SIZE) of the plotting cells.
PlotX == RangeSeq(chunkSize, LenDf, chunkSize)

\* The plotting cell: ax.plot(x, dask_speed); ax.plot(x, pandas_speed).
\* matplotlib raises ValueError when x and y differ in length.
PlotCellRun ==
    /\ mode = "measure"
    /\ mpc \in {"sum_plot", "train_plot"}
    /\ IF Len(PlotX) = Len(gDask.val) /\ Len(PlotX) = Len(gPandas.val)
       THEN mpc' = IF mpc = "sum_plot" THEN "train_cell" ELSE "done"
       ELSE mpc' = "plot_error"
    /\ UNCHANGED <<mode, cellVars, gbVars, measInputs, fn, measLocals, measGlobals, measured,
                   now, materialized>>

InitMeasure ==
    /\ chunkSize \in ChunkChoices
    /\ days \in 1..MaxDays
    /\ mpc = "sum_cell"
    /\ fn = "sum"
    /\ iter = 0
    /\ count = 0
    /\ lenLocal = 0
    /\ ddfChunk = NoHandle
    /\ dfChunk = 0
    /\ startTime = 0
    /\ lDask = <<>>
    /\ lPandas = <<>>
    /\ gDask = Unbound
    /\ gPandas = Unbound
    /\ gBefore = <<Unbound, Unbound>>
    /\ measured = <<>>
    /\ now = 0
    /\ materialized = 0

\* The values of the "measure" run while another run is modelled.
IdleMeasure ==
    /\ chunkSize = TrainChunkLiteral
    /\ days = 1
    /\ mpc = "idle"
    /\ fn = "sum"
    /\ iter = 0
    /\ count = 0
    /\ lenLocal = 0
    /\ ddfChunk = NoHandle
    /\ dfChunk = 0
    /\ startTime = 0
    /\ lDask = <<>>
    /\ lPandas = <<>>
    /\ gDask = Unbound
    /\ gPandas = Unbound
    /\ gBefore = <<Unbound, Unbound>>
    /\ measured = <<>>
    /\ now = 0
    /\ materialized = 0


(***************************************************************************)
(* Run "groupby": part_000, df.set_index('name') .. groupby-apply          *)
(***************************************************************************)

\* Bound of the generated table.
MaxRows == 3

\* The values of the name column, in sort order, and of the float columns.
NameOrder == <<"Alice", "Bob", "Charlie">>
NameSet == {NameOrder[i] : i \in 1..Len(NameOrder)}
Values == 0..1
RowSet == [name : NameSet, x : Values, y : Values]

RECURSIVE Tables(_)
Tables(n) ==
    IF n = 0 THEN {<<>>}
    ELSE Tables(n - 1) \cup
         {Append(t, r) : t \in {u \in Tables(n - 1) : Len(u) = n - 1}, r \in RowSet}

\* The rows of a table whose name is one of a set, in the table's order.
RowsNamed(t, names) == SelectSeq(t, LAMBDA r : r.name \in names)

\* The names of NameOrder[lo..hi] that occur in table t, in sort order.
RECURSIVE NamesIn(_, _, _)
NamesIn(t, lo, hi) ==
    IF lo > hi THEN <<>>
    ELSE (IF RowsNamed(t, {NameOrder[lo]}) = <<>> THEN <<>> ELSE <<NameOrder[lo]>>)
         \o NamesIn(t, lo + 1, hi)

\* The table sorted by name (stable).
RECURSIVE SortedByName(_, _)
SortedByName(t, lo) ==
    IF lo > Len(NameOrder) THEN <<>>
    ELSE RowsNamed(t, {NameOrder[lo]}) \o SortedByName(t, lo + 1)

\* df.set_index('name'): the rows sorted by name and split into partitions
\* at the ranks in cuts, so that every name lies in exactly one partition.
RECURSIVE Divide(_, _, _)
Divide(t, lo, cuts) ==
    IF lo > Len(NameOrder) THEN <<>>
    ELSE LET later == {c \in cuts : c >= lo}
             hi == IF later = {} THEN Len(NameOrder)
                   ELSE CHOOSE c \in later : \A d \in later : c <= d
         IN  <<SortedByName(RowsNamed(t, {NameOrder[i] : i \in lo..hi}), 1)>>
             \o Divide(t, hi + 1, cuts)

\* The value of a function that returns nothing.
None == [fitted |-> FALSE, n |-> -1, sumX |-> 0, sumY |-> 0, coefNum |-> 0, coefDen |-> 0]

RECURSIVE SumSeq(_)
SumSeq(t) == IF t = <<>> THEN 0 ELSE Head(t) + SumSeq(Tail(t))

\* est.fit(X, y) with the single feature column X: ordinary least squares,
\* coef_ = coefNum / coefDen, intercept_ = (sumY - coef_ * sumX) / n.
Fit(X, y) ==
    LET n == Len(X)
        sx == SumSeq(X)
        sy == SumSeq(y)
        sxx == SumSeq([i \in 1..n |-> X[i] * X[i]])
        sxy == SumSeq([i \in 1..n |-> X[i] * y[i]])
    IN  [fitted |-> TRUE, n |-> n, sumX |-> sx, sumY |-> sy,
         coefNum |-> n * sxy - sx * sy, coefDen |-> n * sxx - sx * sx]

\* A faulty variant of train: the function of dataframe.ipynb, which fits est and
\* returns nothing.
trainNoReturn(partition) == None

\* def train(partition): est = LinearRegression();
\* est.fit(partition[['x']].values, partition.y.values); return est
train(partition) ==
    Fit([i \in 1..Len(partition) |-> partition[i].x],
        [i \in 1..Len(partition) |-> partition[i].y])

\* groupby('name').apply(train) on one partition: train on the rows of every
\* name of the partition, one result per name, in sort order.
ApplyPartition(p) ==
    LET names == NamesIn(p, 1, Len(NameOrder))
    IN  [i \in 1..Len(names) |->
            [name |-> names[i], est |-> train(RowsNamed(p, {names[i]}))]]

RECURSIVE ApplyAll(_)
ApplyAll(ps) ==
    IF ps = <<>> THEN <<>> ELSE ApplyPartition(Head(ps)) \o ApplyAll(Tail(ps))

\* df = df.set_index('name')
SetIndex ==
    /\ mode = "groupby"
    /\ gpc = "set_index"
    /\ \E cuts \in SUBSET (1..(Len(NameOrder) - 1)) :
           parts' = Divide(rows, 1, cuts)
    /\ gpc' = "persist"
    /\ UNCHANGED <<mode, cellVars, measVars, rows, result>>

\* df = df.persist(): the same partitions, held in memory.
Persist ==
    /\ mode = "groupby"
    /\ gpc = "persist"
    /\ gpc' = "apply"
    /\ UNCHANGED <<mode, cellVars, measVars, rows, parts, result>>

\* df.groupby('name').apply(train).compute()
GroupbyApply ==
    /\ mode = "groupby"
    /\ gpc = "apply"
    /\ result' = ApplyAll(parts)
    /\ gpc' = "done"
    /\ UNCHANGED <<mode, cellVars, measVars, rows, parts>>

InitGroupby ==
    /\ gpc = "set_index"
    /\ rows \in Tables(MaxRows)
    /\ parts = <<rows>>
    /\ result = <<>>

\* The values of the "groupby" run while another run is modelled.
IdleGroupby ==
    /\ gpc = "idle"
    /\ rows = <<>>
    /\ parts = <<>>
    /\ result = <<>>

(***************************************************************************)
(* Properties                                                              *)
(***************************************************************************)

\* C1: in each notebook run top to bottom, every name the next statement
\* reads is already bound by an earlier statement (an earlier cell or earlier
\* in the same cell), no NameError has occurred, and a dataset, dataframe or
\* task-graph operation runs only after the client was constructed.
C1_NamesBoundClientFirst ==
    mode = "cells" =>
        /\ ~nameError
        /\ cell <= Len(Cells(nb)) =>
              /\ NextStmt.reads \subseteq (bound \cup Builtins)
              /\ NextStmt.kind = "op" => clientUp
              /\ NextStmt.kind = "client" => cell = 1

\* dataframe.ipynb ran to its last cell, the train plot, which read
\* dask_speed and pandas_speed.
C1_Witness ==
    /\ mode = "cells"
    /\ nb = "dataframe"
    /\ cell = Len(DataframeCells) + 1
    /\ {"dask_speed", "pandas_speed", "train", "x", "df", "ddf"} \subseteq bound

\* C2: in every iteration of both measure functions the dask workers
\* compute rows in the .compute() step only (not when ddf_chunk or the
\* expression on it is built), and the timing appended to dask_speed, taken
\* from start_time read before, covers all the work of evaluating the chunk.
C2_LazyUntilCompute ==
    [][ /\ materialized' # materialized =>
              /\ mpc = "dask_compute"
              /\ materialized' - materialized = HandleWork(ddfChunk)
        /\ mpc' = "dask_compute" => ~ddfChunk'.computed /\ startTime' = now'
        /\ Len(lDask') > Len(lDask) =>
              /\ mpc = "dask_append"
              /\ lDask'[Len(lDask')] = HandleWork(ddfChunk)
      ]_vars

\* measure_train_speed has appended its second dask timing: two chunks were
\* built lazily and computed.
C2_Witness ==
    /\ mode = "measure"
    /\ fn = "train"
    /\ mpc = "t1"
    /\ Len(lDask) = 2
    /\ materialized > 0

\* C3: when a library call raises inside a measure function, the globals
\* dask_speed and pandas_speed keep the values (or unbound status) they had
\* when the assigning cell started; the globals change only by the return
\* of a function whose loop ran to its end.
C3_RaiseLeavesGlobals ==
    [][ /\ mpc' = "raised" =>
              /\ gDask' = gBefore'[1] /\ gPandas' = gBefore'[2]
              /\ gDask' = gDask /\ gPandas' = gPandas
        /\ <<gDask', gPandas'>> # <<gDask, gPandas>> =>
              /\ mpc = "return"
              /\ Len(lDask) = RangeLen(LoopStart(fn), lenLocal, LoopStart(fn))
              /\ Len(lPandas) = Len(lDask)
      ]_vars

\* measure_train_speed raised with partially filled local lists while the
\* globals held the lists of measure_sum_speed.
C3_Witness ==
    /\ mode = "measure"
    /\ mpc = "raised"
    /\ fn = "train"
    /\ Len(lDask) > Len(lPandas)
    /\ gDask.bound /\ gDask.val # lDask
    /\ gDask = gBefore[1] /\ gPandas = gBefore[2]

\* The estimator train returns for the rows of one name of the table.
ModelOf(nm) ==
    LET g == RowsNamed(rows, {nm})
    IN  Fit([i \in 1..Len(g) |-> g[i].x], [i \in 1..Len(g) |-> g[i].y])

\* C4: in part_000 the groupby-apply yields exactly one result per distinct
\* name present in the data, each the fitted estimator train returns for
\* the rows of that name only (x the feature, y the target).
C4_OneModelPerName ==
    (mode = "groupby" /\ gpc = "done") =>
        /\ \A i, j \in 1..Len(result) : result[i].name = result[j].name => i = j
        /\ {result[i].name : i \in 1..Len(result)} = {rows[i].name : i \in 1..Len(rows)}
        /\ \A i \in 1..Len(result) :
              /\ result[i].est.fitted
              /\ result[i].est = ModelOf(result[i].name)

\* Three rows of two names, in two or more partitions, gave two models, the
\* one of Alice fitted on two rows.
C4_Witness ==
    /\ mode = "groupby"
    /\ gpc = "done"
    /\ Len(rows) = 3
    /\ Len(parts) >= 2
    /\ Len(result) = 2
    /\ result[1].name = "Alice" /\ result[1].est.n = 2 /\ result[1].est.coefDen # 0

\* C5: once both chunks of an iteration are built, ddf_chunk and df_chunk
\* denote the same rows, the first count rows of the dataset.
C5_SameRows ==
    (mode = "measure" /\ mpc = "t0") =>
        /\ dfChunk = count
        /\ HandleRows(ddfChunk) = dfChunk

\* C6: when a plotting cell runs, x = range(CHUNK_SIZE, len(df), CHUNK_SIZE)
\* has as many points as dask_speed and as pandas_speed, for the sum plot and
\* for the train plot.
C6_PlotLengths ==
    (mode = "measure" /\ mpc \in {"sum_plot", "train_plot"}) =>
        /\ Len(PlotX) = Len(gDask.val)
        /\ Len(PlotX) = Len(gPandas.val)

\* The appends a function makes when it measures every count of
\* range(start, stop, start): dask first, then pandas, count by count.
ExpectedMeasured(start, stop) ==
    [i \in 1..(2 * RangeLen(start, stop, start)) |->
        <<IF i % 2 = 1 THEN "dask" ELSE "pandas", RangeAt(start, start, (i + 1) \div 2)>>]

\* C7: each measure function returns two lists of equal length with one
\* timing per count of range(CHUNK_SIZE, len(df), CHUNK_SIZE), in increasing
\* count order, dask before pandas for every count; the lists are of equal
\* length after every completed iteration, len(df) itself is never measured,
\* and both lists are empty when len(df) <= CHUNK_SIZE.
C7_OneTimingPerCount ==
    mode = "measure" =>
        /\ mpc \in {"sum_plot", "train_plot"} =>
              /\ Len(gDask.val) = Len(gPandas.val)
              /\ measured = ExpectedMeasured(chunkSize, LenDf)
              /\ Len(gDask.val) = RangeLen(chunkSize, LenDf, chunkSize)
              /\ LenDf <= chunkSize => gDask.val = <<>> /\ gPandas.val = <<>>
        /\ mpc = "for" => Len(lDask) = Len(lPandas)
        /\ mpc \in MeasuringPcs =>
              /\ Len(lPandas) <= Len(lDask) /\ Len(lDask) <= Len(lPandas) + 1
              /\ \A i \in 1..Len(measured) : measured[i][2] < LenDf

Init ==
    \/ /\ mode = "cells"
       /\ InitCells
       /\ IdleMeasure
       /\ IdleGroupby
    \/ /\ mode = "measure"
       /\ InitMeasure
       /\ IdleCells
       /\ IdleGroupby
    \/ /\ mode = "groupby"
       /\ InitGroupby
       /\ IdleCells
       /\ IdleMeasure

Next ==
    \/ RunStmt
    \/ EnterFunction
    \/ ForHead
    \/ DaskHeadStmt
    \/ PandasHeadStmt
    \/ ReadStartTime
    \/ DaskBuild
    \/ DaskCompute
    \/ DaskAppend
    \/ PandasOp
    \/ PandasAppend
    \/ Raise
    \/ ReturnAssign
    \/ PlotCellRun
    \/ SetIndex
    \/ Persist
    \/ GroupbyApply

Spec == Init /\ [][Next]_vars

====
